---- MODULE Spec2Model ----
(***************************************************************************)
(* Token-level model of the `closure!` capture-list macro (src/src/lib.rs) *)
(* and of its helpers `__extract_last_ident!` and `__assert_closure!`.     *)
(*                                                                         *)
(* A token is a string.  A macro invocation is a token sequence; every     *)
(* rule of `closure!` is one action that consumes a prefix of the          *)
(* remaining tokens `rest` and appends the statements it transcribes to    *)
(* `out`.  The helper macros are expanded inside the rule that invokes     *)
(* them.  After a successful expansion the emitted block is evaluated once *)
(* (Construct) and the resulting closure may be called (Invoke).           *)
(***************************************************************************)
EXTENDS Naturals, Sequences, FiniteSets

VARIABLES
    caps,     \* the capture list of the invocation, item by item
    tail,     \* the tokens written after the capture list
    pc,       \* "entry", "inner", "expanded", "failed", "built"
    rest,     \* tokens still to be matched by closure!(@inner ...)
    out,      \* statements transcribed so far, in order
    applied,  \* transform methods applied at run time, in order
    calls     \* number of times the built closure was invoked

vars == <<caps, tail, pc, rest, out, applied, calls>>

-----------------------------------------------------------------------------
\* Bounds of the model.
MaxCaps == 2
MaxPathLen == 2
MaxInvoke == 2

-----------------------------------------------------------------------------
\* Tokens.

\* A chain of field names; a path is a prefix of it.
Fields == <<"a", "b", "c", "d">>

\* Everything the `ident` fragment matches: identifiers and keywords.
Idents == {"move", "ref", "mut", "clone", "x"} \cup {Fields[i] : i \in 1..Len(Fields)}

IsIdent(t) == t \in Idents

Last(s) == s[Len(s)]

RECURSIVE Flatten(_)
Flatten(ss) == IF ss = <<>> THEN <<>> ELSE Head(ss) \o Flatten(Tail(ss))

\* a.b.c as tokens
RECURSIVE PathTokens(_)
PathTokens(p) ==
    IF Len(p) = 1 THEN <<p[1]>>
    ELSE <<p[1], ".">> \o PathTokens(Tail(p))

-----------------------------------------------------------------------------
\* Inputs.

Paths == {SubSeq(Fields, 1, n) : n \in 1..MaxPathLen}

\* The six documented capture forms: move / ref / a method name, each with
\* an optional `mut`.
Specifiers ==
    [kind : {"cap"}, mode : {"move", "ref", "clone"}, mut : BOOLEAN, path : Paths]

\* Items that are not one of the documented forms.
RawItems ==
    { [kind |-> "raw", toks |-> t] :
        t \in { <<",">>,
                <<"a", ",">>,
                <<"a", ".", "b", ",">>,
                <<"move", ",">>,
                <<"move", "move", "a", ",">>,
                <<"ref", "ref", "a", ",">>,
                <<"ref", "mut", ",">> } }

Items == Specifiers \cup RawItems

IsSpecifier(c) == c.kind = "cap"
IsComma(c) == c.kind = "raw" /\ c.toks = <<",">>
IsBarePath(c) == c.kind = "raw" /\ c.toks \in {<<"a", ",">>, <<"a", ".", "b", ",">>}

Render(c) ==
    IF c.kind = "raw" THEN c.toks
    ELSE <<c.mode>> \o (IF c.mut THEN <<"mut">> ELSE <<>>)
                    \o PathTokens(c.path) \o <<",">>

\* What is written after the capture list: closures (without and with
\* parameters, with a return type), closures with their own `move`, an
\* expression, nothing.
Tails ==
    { <<"||", "x">>,
      <<"|", "x", "|", "x">>,
      <<"||", "->", "x", "{}">>,
      <<"move", "||", "x">>,
      <<"move", "x">>,
      <<"x">>,
      <<>> }

SeqsUpTo(S, n) == UNION {[1..k -> S] : k \in 0..n}

Args(cs, tl) == Flatten([i \in 1..Len(cs) |-> Render(cs[i])]) \o tl

-----------------------------------------------------------------------------
\* __extract_last_ident!

IsPath(t) ==
    /\ Len(t) >= 1
    /\ Len(t) % 2 = 1
    /\ \A i \in 1..Len(t) : IF i % 2 = 1 THEN IsIdent(t[i]) ELSE t[i] = "."

\* variant: the recursive rules keep the ignored head instead of the tail
extract_first_ident(t) ==
    IF Len(t) >= 2 /\ t[1] = "mut" /\ t[2] # "." THEN <<"mut", t[2]>>
    ELSE <<t[1]>>

RECURSIVE extract_last_ident(_)
extract_last_ident(t) ==
    IF Len(t) = 1 /\ IsIdent(t[1]) THEN <<t[1]>>
    ELSE IF Len(t) = 2 /\ t[1] = "mut" /\ IsIdent(t[2]) THEN <<"mut", t[2]>>
    ELSE IF Len(t) >= 3 /\ IsIdent(t[1]) /\ t[2] = "." /\ IsPath(SubSeq(t, 3, Len(t)))
        THEN extract_last_ident(SubSeq(t, 3, Len(t)))
    ELSE IF Len(t) >= 4 /\ t[1] = "mut" /\ IsIdent(t[2]) /\ t[3] = "."
                        /\ IsPath(SubSeq(t, 4, Len(t)))
        THEN extract_last_ident(<<"mut">> \o SubSeq(t, 4, Len(t)))
    ELSE <<>>

-----------------------------------------------------------------------------
\* __assert_closure!

\* the two compile_error! messages (the text without its quoting marks)
MoveMsg == "keyword move not permitted here"
NotClosureMsg == "the supplied argument is not a closure: "

Diag(msg, toks) == [kind |-> "diag", msg |-> msg, quoted |-> toks]

\* variant: the catch-all rule written before the `move` rule
assert_closure_catch_all_first(t) ==
    IF Len(t) >= 1 /\ t[1] = "|" THEN <<>>
    ELSE IF Len(t) >= 1 /\ t[1] = "||" THEN <<>>
    ELSE <<Diag(NotClosureMsg, t)>>

\* variant: the catch-all rule binds the first token apart and quotes the rest
assert_closure_quote_rest(t) ==
    IF Len(t) >= 1 /\ t[1] = "|" THEN <<>>
    ELSE IF Len(t) >= 1 /\ t[1] = "||" THEN <<>>
    ELSE IF Len(t) >= 1 /\ t[1] = "move" THEN <<Diag(MoveMsg, <<>>)>>
    ELSE <<Diag(NotClosureMsg, IF t = <<>> THEN t ELSE Tail(t))>>

\* variant: the catch-all rule expands to nothing
assert_closure_accept_all(t) ==
    IF Len(t) >= 1 /\ t[1] = "move" THEN <<Diag(MoveMsg, <<>>)>>
    ELSE <<>>

assert_closure(t) ==
    IF Len(t) >= 1 /\ t[1] = "|" THEN <<>>
    ELSE IF Len(t) >= 1 /\ t[1] = "||" THEN <<>>
    ELSE IF Len(t) >= 1 /\ t[1] = "move" THEN <<Diag(MoveMsg, <<>>)>>
    ELSE <<Diag(NotClosureMsg, t)>>

-----------------------------------------------------------------------------
\* closure!: matchers

\* Matches `$($ids:ident).+ ,` from position i; the result is the position
\* of the comma, 0 when the fragment does not match.
RECURSIVE PathEnd(_, _)
PathEnd(t, i) ==
    IF i + 1 > Len(t) THEN 0
    ELSE IF ~IsIdent(t[i]) THEN 0
    ELSE IF t[i + 1] = "," THEN i + 1
    ELSE IF t[i + 1] = "." THEN PathEnd(t, i + 2)
    ELSE 0

MatchMove(t)    == Len(t) >= 1 /\ t[1] = "move" /\ PathEnd(t, 2) # 0
MatchMoveMut(t) == Len(t) >= 2 /\ t[1] = "move" /\ t[2] = "mut" /\ PathEnd(t, 3) # 0
MatchRef(t)     == Len(t) >= 1 /\ t[1] = "ref" /\ PathEnd(t, 2) # 0
MatchRefMut(t)  == Len(t) >= 2 /\ t[1] = "ref" /\ t[2] = "mut" /\ PathEnd(t, 3) # 0
MatchFn(t)      == Len(t) >= 1 /\ IsIdent(t[1]) /\ PathEnd(t, 2) # 0
MatchFnMut(t)   == Len(t) >= 2 /\ IsIdent(t[1]) /\ t[2] = "mut" /\ PathEnd(t, 3) # 0
\* variant: no rule for a separator on its own
MatchNoComma(t) == FALSE
MatchComma(t)   == Len(t) >= 1 /\ t[1] = ","

\* variant: the generic $fn:ident rules written before the keyword rules
InnerRuleFnFirst(t) ==
    IF MatchFn(t) THEN "fn"
    ELSE IF MatchFnMut(t) THEN "fn mut"
    ELSE IF MatchMove(t) THEN "move"
    ELSE IF MatchMoveMut(t) THEN "move mut"
    ELSE IF MatchRef(t) THEN "ref"
    ELSE IF MatchRefMut(t) THEN "ref mut"
    ELSE IF MatchComma(t) THEN ","
    ELSE "closure"

\* Rules are tried in the order they are written; the first match is taken.
InnerRule(t) ==
    IF MatchMove(t) THEN "move"
    ELSE IF MatchMoveMut(t) THEN "move mut"
    ELSE IF MatchRef(t) THEN "ref"
    ELSE IF MatchRefMut(t) THEN "ref mut"
    ELSE IF MatchFn(t) THEN "fn"
    ELSE IF MatchFnMut(t) THEN "fn mut"
    ELSE IF MatchComma(t) THEN ","
    ELSE "closure"

\* $($ids).+ and $($tail)* of a capture rule whose path starts at position i
Ids(t, i) == SubSeq(t, i, PathEnd(t, i) - 1)
TailOf(t, i) == SubSeq(t, PathEnd(t, i) + 1, Len(t))

-----------------------------------------------------------------------------
\* closure!: transcribers

Let(pat, init) == [kind |-> "let", pat |-> pat, init |-> init]

\* variant: `ref mut` transcribed with the pattern of `move mut`
LetRefMutBinding(ids) == Let(extract_last_ident(<<"mut">> \o ids), <<"&", "mut">> \o ids)
\* variant: the transform rule transcribed as the move rule it was copied from
LetFnNoCall(fn, ids) == Let(extract_last_ident(ids), ids)

LetMove(ids)      == Let(extract_last_ident(ids), ids)
LetMoveMut(ids)   == Let(extract_last_ident(<<"mut">> \o ids), ids)
LetRef(ids)       == Let(extract_last_ident(ids), <<"&">> \o ids)
LetRefMut(ids)    == Let(extract_last_ident(ids), <<"&", "mut">> \o ids)
LetFn(fn, ids)    == Let(extract_last_ident(ids), ids \o <<".", fn, "()">>)
LetFnMut(fn, ids) == Let(extract_last_ident(<<"mut">> \o ids), ids \o <<".", fn, "()">>)

\* variant: the closure transcribed without the forced `move`
ClosureStmtsNoMove(t) ==
    assert_closure(t) \o <<[kind |-> "closure", toks |-> t]>>

\* variant: the assertion transcribed after the closure
ClosureStmtsAssertLast(t) ==
    <<[kind |-> "closure", toks |-> <<"move">> \o t]>> \o assert_closure(t)

ClosureStmts(t) ==
    assert_closure(t) \o <<[kind |-> "closure", toks |-> <<"move">> \o t]>>

IsDiag(s) == s.kind = "diag"
HasDiag(stmts) == \E i \in 1..Len(stmts) : IsDiag(stmts[i])

-----------------------------------------------------------------------------
\* Run time: what evaluating a token sequence applies.

RECURSIVE MethodCalls(_)
MethodCalls(t) ==
    IF Len(t) < 3 THEN <<>>
    ELSE IF t[Len(t)] = "()" /\ t[Len(t) - 2] = "."
        THEN MethodCalls(SubSeq(t, 1, Len(t) - 3))
             \o << <<t[Len(t) - 1], SubSeq(t, 1, Len(t) - 3)>> >>
    ELSE MethodCalls(SubSeq(t, 1, Len(t) - 1))

StmtCalls(s) == IF s.kind = "let" THEN MethodCalls(s.init) ELSE <<>>

BlockCalls(stmts) == Flatten([i \in 1..Len(stmts) |-> StmtCalls(stmts[i])])

\* tokens of the closure body: everything after the parameter list
RECURSIVE AfterBar(_)
AfterBar(t) ==
    IF t = <<>> THEN <<>>
    ELSE IF Head(t) = "|" THEN Tail(t)
    ELSE AfterBar(Tail(t))

Body(t) ==
    IF Len(t) >= 2 /\ t[2] = "||" THEN SubSeq(t, 3, Len(t))
    ELSE IF Len(t) >= 2 /\ t[2] = "|" THEN AfterBar(SubSeq(t, 3, Len(t)))
    ELSE <<>>

-----------------------------------------------------------------------------
\* The state machine.

Init ==
    /\ caps \in SeqsUpTo(Items, MaxCaps)
    /\ tail \in Tails
    /\ pc = "entry"
    /\ rest = <<>>
    /\ out = <<>>
    /\ applied = <<>>
    /\ calls = 0

\* ($($args:tt)*) => {{ closure! { @inner $($args)* } }}
Entry ==
    /\ pc = "entry"
    /\ pc' = "inner"
    /\ rest' = Args(caps, tail)
    /\ UNCHANGED <<caps, tail, out, applied, calls>>

Capture(rule, stmt, i) ==
    /\ pc = "inner"
    /\ InnerRule(rest) = rule
    /\ out' = Append(out, stmt)
    /\ rest' = TailOf(rest, i)
    /\ UNCHANGED <<caps, tail, pc, applied, calls>>

InnerMove    == Capture("move", LetMove(Ids(rest, 2)), 2)
InnerMoveMut == Capture("move mut", LetMoveMut(Ids(rest, 3)), 3)
InnerRef     == Capture("ref", LetRef(Ids(rest, 2)), 2)
InnerRefMut  == Capture("ref mut", LetRefMut(Ids(rest, 3)), 3)
InnerFn      == Capture("fn", LetFn(rest[1], Ids(rest, 2)), 2)
InnerFnMut   == Capture("fn mut", LetFnMut(rest[1], Ids(rest, 3)), 3)

InnerComma ==
    /\ pc = "inner"
    /\ InnerRule(rest) = ","
    /\ rest' = Tail(rest)
    /\ UNCHANGED <<caps, tail, pc, out, applied, calls>>

InnerClosure ==
    /\ pc = "inner"
    /\ InnerRule(rest) = "closure"
    /\ out' = out \o ClosureStmts(rest)
    /\ pc' = IF HasDiag(out') THEN "failed" ELSE "expanded"
    /\ UNCHANGED <<caps, tail, rest, applied, calls>>

\* The block evaluates its statements once, in order, and yields the closure.
Construct ==
    /\ pc = "expanded"
    /\ pc' = "built"
    /\ applied' = applied \o BlockCalls(out)
    /\ UNCHANGED <<caps, tail, rest, out, calls>>

\* A call evaluates the closure body.
Invoke ==
    /\ pc = "built"
    /\ calls < MaxInvoke
    /\ calls' = calls + 1
    /\ applied' = applied \o MethodCalls(Body(Last(out).toks))
    /\ UNCHANGED <<caps, tail, pc, rest, out>>

Next ==
    \/ Entry
    \/ InnerMove
    \/ InnerMoveMut
    \/ InnerRef
    \/ InnerRefMut
    \/ InnerFn
    \/ InnerFnMut
    \/ InnerComma
    \/ InnerClosure
    \/ Construct
    \/ Invoke

Spec == Init /\ [][Next]_vars

-----------------------------------------------------------------------------
\* Vocabulary of the properties.

Done == pc \in {"expanded", "failed", "built"}
Success == pc \in {"expanded", "built"}

IsLet(s) == s.kind = "let"
IsClosure(s) == s.kind = "closure"
Lets(stmts) == SelectSeq(stmts, IsLet)

WellFormed == \A i \in 1..Len(caps) : IsSpecifier(caps[i])
ClosureTail == Len(tail) >= 1 /\ tail[1] \in {"|", "||"}

\* the name a specifier is documented to bind, with its mutability
BoundName(c) ==
    IF c.mut /\ c.mode # "ref" THEN <<"mut", Last(c.path)>> ELSE <<Last(c.path)>>

\* the binding a specifier is documented to produce
Expected(c) ==
    [kind |-> "let",
     pat  |-> BoundName(c),
     init |-> IF c.mode = "move" THEN PathTokens(c.path)
              ELSE IF c.mode = "ref" /\ ~c.mut THEN <<"&">> \o PathTokens(c.path)
              ELSE IF c.mode = "ref" THEN <<"&", "mut">> \o PathTokens(c.path)
              ELSE PathTokens(c.path) \o <<".", c.mode, "()">>]

ExpectedAll(cs) == [i \in 1..Len(cs) |-> Expected(cs[i])]

-----------------------------------------------------------------------------
\* C1: a list of well-formed specifiers followed by a closure expands to
\* exactly one binding per specifier, in the order of the list, repeated
\* paths included, each binding of the form documented for its variant.
C1_OneBindingPerSpecifier ==
    (Done /\ WellFormed /\ ClosureTail) => Lets(out) = ExpectedAll(caps)

C1_Witness ==
    /\ Success /\ WellFormed /\ ClosureTail
    /\ Len(caps) >= 2
    /\ caps[1].path = caps[2].path
    /\ caps[1].mode = "ref" /\ caps[1].mut
    /\ caps[2].mode = "clone" /\ caps[2].mut
    /\ Len(Lets(out)) = Len(caps)

C3_ClosurePassedThrough ==
    Success =>
        /\ Len(out) >= 1
        /\ IsClosure(Last(out))
        /\ \A i \in 1..(Len(out) - 1) : ~IsClosure(out[i])
        /\ Last(out).toks = <<"move">> \o rest
        /\ ClosureTail => Last(out).toks = <<"move">> \o tail
        /\ caps = <<>> => out = <<[kind |-> "closure", toks |-> <<"move">> \o tail]>>

C3_Witness ==
    /\ pc = "expanded" /\ caps = <<>> /\ tail = <<"||", "x">>
    /\ out = <<[kind |-> "closure", toks |-> <<"move", "||", "x">>]>>

\* the transform captures of a list, as (method, receiver) pairs
RECURSIVE Transforms(_)
Transforms(cs) ==
    IF cs = <<>> THEN <<>>
    ELSE (IF Head(cs).mode \in {"move", "ref"} THEN <<>>
          ELSE << <<Head(cs).mode, PathTokens(Head(cs).path)>> >>)
         \o Transforms(Tail(cs))

\* C4: a transform capture applies its method exactly once, when the closure
\* is constructed; calling the closure does not apply it again.
C4_TransformAppliedOnce ==
    /\ []((pc = "built" /\ WellFormed /\ ClosureTail) => applied = Transforms(caps))
    /\ []((pc # "built") => applied = <<>>)
    /\ [][pc = "built" => applied' = applied]_vars

C4_Witness ==
    /\ pc = "built" /\ calls >= 2
    /\ Len(caps) = 1 /\ IsSpecifier(caps[1])
    /\ caps[1].mode = "clone" /\ ~caps[1].mut /\ caps[1].path = <<"a">>
    /\ applied = << <<"clone", <<"a">>>> >>

\* C5: when the tokens left after the capture list begin with `move`, the
\* expansion fails with the `move` diagnostic; no closure written with its
\* own `move` expands successfully.
C5_MoveRejected ==
    /\ (Done /\ Len(rest) >= 1 /\ rest[1] = "move") =>
          /\ pc = "failed"
          /\ Len(out) >= 2
          /\ out[Len(out) - 1] = Diag(MoveMsg, <<>>)
    /\ (Done /\ Len(tail) >= 2 /\ tail[1] = "move" /\ tail[2] \in {"|", "||"}) =>
          pc = "failed"

C5_Witness ==
    /\ pc = "failed" /\ WellFormed /\ Len(caps) >= 1
    /\ tail = <<"move", "||", "x">>
    /\ rest = tail
    /\ Len(Lets(out)) = Len(caps)

\* C6: when the tokens left after the capture list are not a closure and do
\* not begin with `move`, the expansion fails with the not-a-closure
\* diagnostic, which quotes exactly those tokens.
C6_NotClosureRejected ==
    (Done /\ (rest = <<>> \/ rest[1] \notin {"|", "||", "move"})) =>
        /\ pc = "failed"
        /\ Len(out) >= 2
        /\ out[Len(out) - 1] = Diag(NotClosureMsg, rest)

C6_Witness ==
    /\ pc = "failed" /\ WellFormed /\ Len(caps) >= 1
    /\ tail = <<"x">>
    /\ rest = tail
    /\ out[Len(out) - 1] = Diag(NotClosureMsg, <<"x">>)

\* the first bare path of the list, when only specifiers and lone commas
\* come before it (0 when there is none)
FirstBare ==
    IF \E i \in 1..Len(caps) : IsBarePath(caps[i])
    THEN LET i == CHOOSE i \in 1..Len(caps) :
                    IsBarePath(caps[i]) /\ \A j \in 1..(i - 1) : ~IsBarePath(caps[j])
         IN  IF \A j \in 1..(i - 1) : IsSpecifier(caps[j]) \/ IsComma(caps[j])
             THEN i ELSE 0
    ELSE 0

\* C7 as stated: a path without a keyword is accepted and bound like
\* `move path`.
C7_BarePathMoves ==
    (Done /\ ClosureTail /\ Len(caps) = 1 /\ IsBarePath(caps[1])) =>
        /\ Success
        /\ Lets(out) = <<LetMove(SubSeq(caps[1].toks, 1, Len(caps[1].toks) - 1))>>

\* C7 amended: a path without a keyword is not accepted; the expansion
\* fails with the not-a-closure diagnostic quoting the tokens from that path
\* on, and no binding is emitted for it.
C7_BarePathRejected ==
    (Done /\ FirstBare # 0) =>
        /\ pc = "failed"
        /\ rest = Args(SubSeq(caps, FirstBare, Len(caps)), tail)
        /\ out[Len(out) - 1] = Diag(NotClosureMsg, rest)
        /\ Lets(out) = ExpectedAll(SelectSeq(SubSeq(caps, 1, FirstBare - 1), IsSpecifier))

C7_Witness ==
    /\ pc = "failed" /\ ClosureTail
    /\ Len(caps) >= 2 /\ IsSpecifier(caps[1]) /\ IsBarePath(caps[2])
    /\ Len(caps[2].toks) = 4
    /\ Len(Lets(out)) = 1

AllSpecifiersOrCommas == \A i \in 1..Len(caps) : IsSpecifier(caps[i]) \/ IsComma(caps[i])

\* C8 as stated: an input whose capture list starts with a comma does not
\* expand successfully.
C8_LeadingCommaRejected ==
    (Done /\ Len(caps) >= 1 /\ IsComma(caps[1])) => pc = "failed"

\* C8 amended: a comma at the start of the capture list is skipped; the
\* input expands as it does without that comma.
C8_LeadingCommaSkipped ==
    (Done /\ Len(caps) >= 1 /\ IsComma(caps[1]) /\ AllSpecifiersOrCommas /\ ClosureTail) =>
        /\ Success
        /\ Lets(out) = ExpectedAll(SelectSeq(caps, IsSpecifier))
        /\ Last(out) = [kind |-> "closure", toks |-> <<"move">> \o tail]
        /\ ~HasDiag(out)

C8_Witness ==
    /\ pc = "expanded" /\ ClosureTail
    /\ Len(caps) >= 2 /\ IsComma(caps[1]) /\ IsSpecifier(caps[2])
    /\ Len(Lets(out)) >= 1

\* C9 as stated: once a diagnostic is emitted, no `move`-prefixed closure
\* tokens are emitted.
C9_NothingAfterDiagnostic ==
    pc = "failed" => \A i \in 1..Len(out) : ~IsClosure(out[i])

\* C9 amended: an expansion that ends in a diagnostic emits it once, and
\* after it only `move` followed by the tokens that were left; the emitted
\* block is never evaluated.
C9_DiagnosticThenMoveTokens ==
    pc = "failed" =>
        /\ Len(out) >= 2
        /\ IsDiag(out[Len(out) - 1])
        /\ \A i \in 1..Len(out) : IsDiag(out[i]) => i = Len(out) - 1
        /\ Last(out) = [kind |-> "closure", toks |-> <<"move">> \o rest]
        /\ applied = <<>> /\ calls = 0

C9_Witness ==
    /\ pc = "failed" /\ WellFormed /\ Len(caps) >= 1
    /\ tail = <<"move", "x">>
    /\ Len(out) = Len(caps) + 2
    /\ IsDiag(out[Len(caps) + 1])
    /\ IsClosure(out[Len(caps) + 2])

\* C10: `ref` and `move` are never taken as the method name of a transform:
\* no emitted binding calls `.ref()` or `.move()`.
C10_KeywordsNotMethods ==
    \A i \in 1..Len(out) : IsLet(out[i]) =>
        \A k \in 1..Len(out[i].init) :
            out[i].init[k] = "()" => out[i].init[k - 1] \notin {"ref", "move"}

C10_Witness ==
    /\ Done /\ Len(caps) >= 2
    /\ IsSpecifier(caps[1]) /\ caps[1].mode = "ref" /\ caps[1].mut
    /\ IsSpecifier(caps[2]) /\ caps[2].mode = "move" /\ caps[2].mut
    /\ Len(out) >= 2
    /\ out[1] = Expected(caps[1])
    /\ out[2] = Expected(caps[2])

====
